---- MODULE Spec2Model ----
(***************************************************************************)
(* Bulk SMS dispatch engine of twilio-sms-hub: CSVProcessor (recipient     *)
(* validation, personalisation, the background batch loop), the            *)
(* deduplication guards, and the rows of the bulk_sms_jobs / sms_messages  *)
(* tables it writes.                                                       *)
(*                                                                         *)
(* Text is modelled as a sequence of one-character strings.  The wall      *)
(* clock (time.time(), datetime.utcnow()) counts whole seconds.            *)
(*                                                                         *)
(* csv_processor.py lines 302-377: the per-recipient try block is written  *)
(* with its tail (334-355) and its except clause (362-377) dedented.  The  *)
(* model reads it the way the copy of the same loop in                     *)
(* run_app.py:1002-1040 is nested: lines 304-355 are the body of the try   *)
(* of one recipient and 362-377 is its except clause.                      *)
(***************************************************************************)
EXTENDS Integers, Sequences, FiniteSets, TLC

\* ------------------------------------------------------------------ bounds
\* Last second of the wall clock that the model explores.
MaxTime == 5
\* Number of store faults (a db.add that raises, a db.commit that raises) in
\* one run.
MaxFaults == 1

\* ------------------------------------------------------------------- text
NULL == "None"

DIGITS == {"0", "1", "2", "3", "4", "5", "6", "7", "8", "9"}

StartsWith(s, p) == Len(s) >= Len(p) /\ SubSeq(s, 1, Len(p)) = p

\* str.replace(old, new): non-overlapping occurrences, left to right.
RECURSIVE Replace(_, _, _)
Replace(s, old, new) ==
    IF Len(s) < Len(old) \/ Len(old) = 0 THEN s
    ELSE IF SubSeq(s, 1, Len(old)) = old
         THEN new \o Replace(SubSeq(s, Len(old) + 1, Len(s)), old, new)
         ELSE <<Head(s)>> \o Replace(Tail(s), old, new)

\* str.strip() on blanks.
RECURSIVE LStrip(_)
LStrip(s) == IF s # <<>> /\ Head(s) = " " THEN LStrip(Tail(s)) ELSE s

RECURSIVE RStrip(_)
RStrip(s) ==
    IF s # <<>> /\ s[Len(s)] = " " THEN RStrip(SubSeq(s, 1, Len(s) - 1)) ELSE s

Strip(s) == RStrip(LStrip(s))

\* re.sub(r'[^\d+]', '', s)
CleanNumber(s) == SelectSeq(s, LAMBDA c : c \in DIGITS \cup {"+"})

\* re.sub(r'[^\d]', '', s)
DigitsOnly(s) == SelectSeq(s, LAMBDA c : c \in DIGITS)

AddPlusPrefix(cleaned) ==
    IF StartsWith(cleaned, <<"+">>) THEN cleaned ELSE <<"+">> \o cleaned

\* ----------------------------------------------------- phonenumbers library
\* The numbering plan known to the phonenumbers package, cut down to the
\* numbers the model feeds it: country code "1" with a one-digit subscriber
\* number.  A number that parses need not be valid ("19" parses, and is not
\* assigned).  A national prefix "0" written after the country code is
\* dropped by the parser, as in "+44 (0)20 ...".
ParseableNumbers == {<<"1", "5">>, <<"1", "6">>, <<"1", "9">>}
ValidNumbers == {<<"1", "5">>, <<"1", "6">>}

NATIONAL_PREFIX == "0"

RECURSIVE StripPlusChars(_)
StripPlusChars(s) ==
    IF s # <<>> /\ Head(s) = "+" THEN StripPlusChars(Tail(s)) ELSE s

\* phonenumbers.parse(cleaned, None): the leading plus signs are dropped and
\* the rest must be a number of the plan; otherwise NumberParseException.
phonenumbers_parse(cleaned) ==
    LET d == StripPlusChars(cleaned)
        national == IF Len(d) = 3 /\ d[2] = NATIONAL_PREFIX
                    THEN <<d[1], d[3]>> ELSE d
    IN  IF national \in ParseableNumbers
        THEN [ok |-> TRUE, digits |-> national]
        ELSE [ok |-> FALSE, digits |-> <<>>]

_validate_phone_number(phone_number) ==
    LET parsed == phonenumbers_parse(AddPlusPrefix(CleanNumber(phone_number)))
    IN  parsed.ok /\ parsed.digits \in ValidNumbers

\* Variant of _format_phone_number: the E164 form without its plus sign.
_format_phone_number_NoPlus(phone_number) ==
    LET parsed == phonenumbers_parse(AddPlusPrefix(CleanNumber(phone_number)))
    IN  IF parsed.ok
        THEN parsed.digits
        ELSE IF ~StartsWith(phone_number, <<"+">>)
             THEN <<"+">> \o DigitsOnly(phone_number)
             ELSE phone_number

\* Lines 136-157: E164 of the parsed number; when the parse raises, the
\* digits behind a plus sign, or the input itself when it starts with one.
_format_phone_number(phone_number) ==
    LET parsed == phonenumbers_parse(AddPlusPrefix(CleanNumber(phone_number)))
    IN  IF parsed.ok
        THEN <<"+">> \o parsed.digits
        ELSE IF ~StartsWith(phone_number, <<"+">>)
             THEN <<"+">> \o DigitsOnly(phone_number)
             ELSE phone_number

\* ------------------------------------------------------------------ pandas
\* What pandas holds for an empty cell: the float nan, which is true in a
\* condition and which str() turns into "nan".
NaN == <<"NaN">>

\* pd.read_csv on one cell.
Cell(text) == IF text = <<>> THEN NaN ELSE text

\* str(value)
Str(value) == IF value = NaN THEN <<"n", "a", "n">> ELSE value

\* --------------------------------------------------------- personalisation
PLACEHOLDER_NAME == <<"{", "n", "a", "m", "e", "}">>
PLACEHOLDER_CUSTOM ==
    <<"{", "c", "u", "s", "t", "o", "m", "_", "f", "i", "e", "l", "d", "}">>

_personalize_message(template, recipient) ==
    LET m1 == IF recipient.name # <<>>
              THEN Replace(template, PLACEHOLDER_NAME, Str(recipient.name))
              ELSE template
    IN  IF recipient.custom_field # <<>>
        THEN Replace(m1, PLACEHOLDER_CUSTOM, Str(recipient.custom_field))
        ELSE m1

\* --------------------------------------------------------------- CSV files
\* A file is [readable, columns, rows]: the columns of its header and the
\* text of the cells of each row, <<>> for an empty cell.
\* pd.read_csv and row.get(column, ''): an empty cell is nan, a cell of a
\* column the file lacks is ''.
read_csv(file) ==
    [index \in 1..Len(file.rows) |->
        [phone_number |-> Cell(file.rows[index].phone_number),
         name |-> IF "name" \in file.columns
                  THEN Cell(file.rows[index].name) ELSE <<>>,
         custom_field |-> IF "custom_field" \in file.columns
                          THEN Cell(file.rows[index].custom_field)
                          ELSE <<>>]]

\* Variant of ValidRows: every row is taken as valid.
RECURSIVE ValidRows_All(_, _)
ValidRows_All(rows, index) ==
    IF index > Len(rows) THEN <<>>
    ELSE LET phone_number == Strip(Str(rows[index].phone_number))
         IN  <<[row |-> index,
                phone_number |-> _format_phone_number(phone_number),
                original_phone_number |-> phone_number,
                name |-> rows[index].name,
                custom_field |-> rows[index].custom_field]>>
             \o ValidRows_All(rows, index + 1)

\* The loop of validate_csv_file over the rows of the data frame.
RECURSIVE ValidRows(_, _)
ValidRows(rows, index) ==
    IF index > Len(rows) THEN <<>>
    ELSE LET phone_number == Strip(Str(rows[index].phone_number))
         IN  (IF _validate_phone_number(phone_number)
              THEN <<[row |-> index,
                      phone_number |-> _format_phone_number(phone_number),
                      original_phone_number |-> phone_number,
                      name |-> rows[index].name,
                      custom_field |-> rows[index].custom_field]>>
              ELSE <<>>) \o ValidRows(rows, index + 1)

\* Variant of InvalidRows: the rows that fail validation are dropped.
InvalidRows_None(rows, index) == <<>>

RECURSIVE InvalidRows(_, _)
InvalidRows(rows, index) ==
    IF index > Len(rows) THEN <<>>
    ELSE LET phone_number == Strip(Str(rows[index].phone_number))
         IN  (IF _validate_phone_number(phone_number)
              THEN <<>>
              ELSE <<[row |-> index,
                      phone_number |-> phone_number,
                      error |-> "Invalid phone number format"]>>)
             \o InvalidRows(rows, index + 1)

validate_csv_file(file) ==
    IF ~file.readable
    THEN [success |-> FALSE, error |-> "read_csv", total_rows |-> 0,
          valid_numbers |-> <<>>, invalid_numbers |-> <<>>,
          valid_count |-> 0, invalid_count |-> 0]
    ELSE IF "phone_number" \notin file.columns
    THEN [success |-> FALSE, error |-> "Missing required columns",
          total_rows |-> 0, valid_numbers |-> <<>>, invalid_numbers |-> <<>>,
          valid_count |-> 0, invalid_count |-> 0]
    ELSE [success |-> TRUE, error |-> NULL, total_rows |-> Len(file.rows),
          valid_numbers |-> ValidRows(read_csv(file), 1),
          invalid_numbers |-> InvalidRows(read_csv(file), 1),
          valid_count |-> Len(ValidRows(read_csv(file), 1)),
          invalid_count |-> Len(InvalidRows(read_csv(file), 1))]

\* ------------------------------------------------------------------ inputs
Text_plus15 == <<"+", "1", "5">>
Text_plus16 == <<"+", "1", "6">>
Text_Al == <<"A", "l">>
Text_Bo == <<"B", "o">>

RowA == [phone_number |-> Text_plus15, name |-> Text_Al, custom_field |-> <<>>]
\* The same subscriber as RowA, written differently.
RowA2 == [phone_number |-> <<" ", "1", "-", "5">>, name |-> Text_Al,
          custom_field |-> <<>>]
RowB == [phone_number |-> Text_plus16, name |-> Text_Bo, custom_field |-> <<>>]
\* Parses, and is not an assigned number.
RowBad == [phone_number |-> <<"+", "1", "9">>, name |-> Text_Bo,
           custom_field |-> <<>>]

\* The same subscriber as RowB, the name cell left empty.
RowNoName == [phone_number |-> Text_plus16, name |-> <<>>,
              custom_field |-> <<>>]

CsvFile(rows) ==
    [readable |-> TRUE, columns |-> {"phone_number", "name"}, rows |-> rows]

\* Ten rows of one subscriber and one row of another: with batches of ten
\* this is the shortest file that needs a second batch.
LongRows == [n \in 1..11 |-> IF n <= 10 THEN RowA ELSE RowB]

Files ==
    { CsvFile(<<RowA>>),
      CsvFile(<<RowA, RowA2>>),
      CsvFile(<<RowA, RowB>>),
      CsvFile(<<RowA, RowBad, RowB>>),
      CsvFile(<<RowBad>>),
      CsvFile(LongRows),
      CsvFile(<<RowNoName>>),
      [readable |-> TRUE, columns |-> {"name"}, rows |-> <<RowA>>],
      [readable |-> FALSE, columns |-> {}, rows |-> <<>>] }

\* "Hi {name}"
TemplateHiName == <<"H", "i", " ">> \o PLACEHOLDER_NAME
\* The templates clients submit: "Hi {name}" and the empty template.
Templates == {TemplateHiName, <<>>}

\* The identifiers uuid.uuid4() gives the jobs of one process.
JobIds == {"job1", "job2"}

\* ------------------------------------------------------------------- state
VARIABLES
    now,                    \* wall clock, whole seconds
    self_twilio_service,    \* CSVProcessor.twilio_service is set
    run_app_loaded,         \* 'run_app' in sys.modules
    global_twilio_service,  \* run_app.twilio_service is set
    recent_messages,        \* TwilioService._recent_messages: key -> time
    bulk_sms_jobs,          \* committed bulk_sms_jobs rows, by job_id
    sms_messages,           \* committed sms_messages rows, in commit order
    session,                \* per job: rows added to db, not yet committed
    task,                   \* per job: the locals of its _send_bulk_sms task
    running,                \* the task the event loop is running, or "None"
    gateway_calls,          \* client.messages.create calls made, in order
    faults,                 \* store faults raised so far
    last_return,            \* what the latest process_bulk_sms call returned
    uploads,                \* the files clients have still to submit
    last_call,              \* the latest direct call of a function: its
                            \* arguments and what it returned
    accepted                \* per guard and (identity, body): when a call
                            \* was last let through

vars == <<now, self_twilio_service, run_app_loaded, global_twilio_service,
          recent_messages, bulk_sms_jobs, sms_messages, session, task,
          running, gateway_calls, faults, last_return, uploads, last_call,
          accepted>>

\* What the scheduler never touches.
direct == <<last_call, accepted>>

config == <<self_twilio_service, run_app_loaded, global_twilio_service>>

None == <<>>
Some(x) == <<x>>

Min(a, b) == IF a < b THEN a ELSE b
Max(a, b) == IF a > b THEN a ELSE b

\* ------------------------------------------------------ transport guard
TRANSPORT_WINDOW == 5
RETENTION == 30

MessageKey(to_number, message_body) == to_number \o <<":">> \o message_body

\* Variant of _is_duplicate: a suppressed call renews the timestamp of its
\* key.
_is_duplicate_Refresh(to_number, message_body) ==
    LET message_key == MessageKey(to_number, message_body)
        updated == [k \in DOMAIN recent_messages \cup {message_key} |->
                       IF k = message_key THEN now ELSE recent_messages[k]]
        kept == {k \in DOMAIN updated : now - updated[k] < RETENTION}
    IN  IF /\ message_key \in DOMAIN recent_messages
           /\ now - recent_messages[message_key] < TRANSPORT_WINDOW
        THEN [duplicate |-> TRUE, recent_messages |-> updated]
        ELSE [duplicate |-> FALSE,
              recent_messages |-> [k \in kept |-> updated[k]]]

\* Variant of _is_duplicate: the time of the call is not written to the
\* cache (line 73 left out).
_is_duplicate_NoRecord(to_number, message_body) ==
    LET message_key == MessageKey(to_number, message_body)
        kept == {k \in DOMAIN recent_messages :
                    now - recent_messages[k] < RETENTION}
    IN  IF /\ message_key \in DOMAIN recent_messages
           /\ now - recent_messages[message_key] < TRANSPORT_WINDOW
        THEN [duplicate |-> TRUE, recent_messages |-> recent_messages]
        ELSE [duplicate |-> FALSE,
              recent_messages |-> [k \in kept |-> recent_messages[k]]]

\* Variant of _is_duplicate: the cache is never cleaned (line 76 left out).
_is_duplicate_NoEvict(to_number, message_body) ==
    LET message_key == MessageKey(to_number, message_body)
        updated == [k \in DOMAIN recent_messages \cup {message_key} |->
                       IF k = message_key THEN now ELSE recent_messages[k]]
    IN  IF /\ message_key \in DOMAIN recent_messages
           /\ now - recent_messages[message_key] < TRANSPORT_WINDOW
        THEN [duplicate |-> TRUE, recent_messages |-> recent_messages]
        ELSE [duplicate |-> FALSE, recent_messages |-> updated]

\* TwilioService._is_duplicate: the answer and the cache it leaves.
_is_duplicate(to_number, message_body) ==
    LET message_key == MessageKey(to_number, message_body)
        updated == [k \in DOMAIN recent_messages \cup {message_key} |->
                       IF k = message_key THEN now ELSE recent_messages[k]]
        kept == {k \in DOMAIN updated : now - updated[k] < RETENTION}
    IN  IF /\ message_key \in DOMAIN recent_messages
           /\ now - recent_messages[message_key] < TRANSPORT_WINDOW
        THEN [duplicate |-> TRUE, recent_messages |-> recent_messages]
        ELSE [duplicate |-> FALSE,
              recent_messages |-> [k \in kept |-> updated[k]]]

\* -------------------------------------------------------- request guard
ENABLE_APP_LEVEL_DEDUP == TRUE
REQUEST_WINDOW == 10

\* str.lower() on the letters the model uses.
Lower(s) ==
    [n \in 1..Len(s) |->
        CASE s[n] = "A" -> "a" [] s[n] = "B" -> "b" [] s[n] = "H" -> "h"
          [] s[n] = "X" -> "x" [] OTHER -> s[n]]

\* request_key of line 176.
RequestKey(phone_number, message_body) ==
    Lower(phone_number) \o <<":">> \o Lower(message_body)

\* run_app.is_duplicate_request.  The function assigns _global_sms_requests
\* (line 200) without declaring it global, so the name is local to the
\* function and its first read (line 179) raises UnboundLocalError: with the
\* guard enabled every call raises before it answers.
is_duplicate_request(phone_number, message_body, source) ==
    IF ~ENABLE_APP_LEVEL_DEDUP
    THEN [raised |-> FALSE, duplicate |-> FALSE]
    ELSE [raised |-> TRUE, duplicate |-> FALSE]

\* ------------------------------------------------------------- gateway
\* What TwilioService.send_sms returns after client.messages.create: the
\* message resource, or the dict of the except clauses (no "status" key).
GatewayResults ==
    { [success |-> TRUE, status |-> "queued", message_sid |-> "SM"],
      [success |-> FALSE, status |-> NULL, message_sid |-> NULL] }

\* Variant of DuplicateBlocked: the suppressed send reported as a failure.
DuplicateBlocked_Failure ==
    [success |-> FALSE, status |-> "duplicate_blocked",
     message_sid |-> "DUPLICATE_BLOCKED"]

\* Lines 98-110 of TwilioService.send_sms.
DuplicateBlocked ==
    [success |-> TRUE, status |-> "duplicate_blocked",
     message_sid |-> "DUPLICATE_BLOCKED"]

NoResult == [success |-> FALSE, status |-> NULL, message_sid |-> NULL]

\* --------------------------------------------------------------- scheduler
DELAY_BETWEEN_BATCHES == 1
\* 0.05 s, in whole seconds.
DELAY_BETWEEN_MESSAGES == 0

\* Variant of BatchSize: a twentieth of the recipients, without the limits.
BatchSize_Unclamped(total_recipients) == total_recipients \div 20

\* Line 282.
BatchSize(total_recipients) == Min(100, Max(10, total_recipients \div 20))

TotalRecipients(j) == Len(task[j].recipients)
\* Variant of BatchEnd: the slice stops one recipient early, so the next
\* batch starts with the last recipient of this one.
BatchEnd_Overlap(j) ==
    Min(Max(task[j].batch_start + BatchSize(TotalRecipients(j)) - 1,
            task[j].batch_start + 1),
        TotalRecipients(j))
\* Line 295.
BatchEnd(j) ==
    Min(task[j].batch_start + BatchSize(TotalRecipients(j)), TotalRecipients(j))
BatchLen(j) == BatchEnd(j) - task[j].batch_start
\* 1-based position in recipients of the recipient being processed.
Position(j) == task[j].batch_start + task[j].i + 1
Recipient(j) == task[j].recipients[Position(j)]

Created == DOMAIN task

\* str(uuid.uuid4()), line 192: an identifier no job has yet; the first job
\* of the process is called "job1" and the second "job2".
uuid4 == IF "job1" \notin Created THEN "job1" ELSE "job2"

EmptyMap == [k \in {} |-> 0]
Extend(f, k, v) == [x \in DOMAIN f \cup {k} |-> IF x = k THEN v ELSE f[x]]

\* No direct call yet.
NoCall == [op |-> NULL]

NoReturn ==
    [success |-> FALSE, error |-> NULL, job_id |-> NULL, total_count |-> 0]

\* How the process was started: what CSVProcessor holds and what
\* sys.modules['run_app'] offers.
Deployments ==
    { \* python run_app.py (start.py:110): the application is __main__
      [self_twilio_service |-> TRUE, run_app_loaded |-> FALSE,
       global_twilio_service |-> FALSE],
      \* run_app imported as a module and configured
      [self_twilio_service |-> TRUE, run_app_loaded |-> TRUE,
       global_twilio_service |-> TRUE],
      \* backend/app/main.py:54: CSVProcessor() without a service
      [self_twilio_service |-> FALSE, run_app_loaded |-> FALSE,
       global_twilio_service |-> FALSE],
      \* CSVProcessor() without a service beside a configured run_app
      [self_twilio_service |-> FALSE, run_app_loaded |-> TRUE,
       global_twilio_service |-> TRUE],
      \* CSVProcessor() without a service beside an unconfigured run_app
      [self_twilio_service |-> FALSE, run_app_loaded |-> TRUE,
       global_twilio_service |-> FALSE] }

InitProcess ==
    /\ now = 0
    /\ \E d \in Deployments :
          /\ self_twilio_service = d.self_twilio_service
          /\ run_app_loaded = d.run_app_loaded
          /\ global_twilio_service = d.global_twilio_service
    /\ recent_messages = EmptyMap
    /\ bulk_sms_jobs = EmptyMap
    /\ sms_messages = <<>>
    /\ session = EmptyMap
    /\ task = EmptyMap
    /\ running = NULL
    /\ gateway_calls = <<>>
    /\ faults = 0
    /\ last_return = NoReturn
    /\ last_call = NoCall
    /\ accepted = EmptyMap

\* One client submits one file.
Init ==
    /\ InitProcess
    /\ \E file \in Files : uploads = {file}

\* ------------------------------------------------------ process_bulk_sms
\* Variant of NewJobRow: the status column left to its default
\* (database.py:47).
NewJobRow_DefaultStatus(total_count, message_template) ==
    [status |-> "pending", total_count |-> total_count, sent_count |-> 0,
     failed_count |-> 0, message_template |-> message_template,
     created_at |-> now, completed_at |-> None]

\* BulkSMSJob(job_id=..., total_count=..., message_template=...,
\* status="processing"); the other columns take their defaults.
NewJobRow(total_count, message_template) ==
    [status |-> "processing", total_count |-> total_count, sent_count |-> 0,
     failed_count |-> 0, message_template |-> message_template,
     created_at |-> now, completed_at |-> None]

\* The locals of a new task.  attempted, suppressed, escaped and paused keep
\* track of what the task has done: the positions it has tried, those it
\* skipped as duplicates, whether an exception left the batch loop, and the
\* sleeps it has returned from since its latest gateway call.
NewTask(valid_numbers, message_template) ==
    [pc |-> "start", recipients |-> valid_numbers,
     message_template |-> message_template,
     twilio_service |-> self_twilio_service,
     sent_count |-> 0, failed_count |-> 0, batch_start |-> 0, i |-> 0,
     phone_number |-> <<>>, message_body |-> <<>>, result |-> NoResult,
     wake |-> 0, attempted |-> {}, suppressed |-> {}, escaped |-> FALSE,
     paused |-> {}]

\* Variant of process_bulk_sms: the call awaits the task it created
\* instead of returning, so the caller has no answer while the task runs.
process_bulk_sms_Awaits(file, message_template) ==
    /\ running = NULL
    /\ file \in uploads
    /\ uploads' = uploads \ {file}
    /\ LET validation_result == validate_csv_file(file)
           valid_numbers == validation_result.valid_numbers
       IN  IF ~validation_result.success \/ valid_numbers = <<>>
           THEN /\ last_return' = [NoReturn EXCEPT !.error = "error"]
                /\ UNCHANGED <<bulk_sms_jobs, session, task>>
           ELSE \E job_id \in {uuid4} \ Created :
                /\ bulk_sms_jobs' =
                       Extend(bulk_sms_jobs, job_id,
                              NewJobRow(Len(valid_numbers), message_template))
                /\ session' = Extend(session, job_id, <<>>)
                /\ task' = Extend(task, job_id,
                                  NewTask(valid_numbers, message_template))
                /\ UNCHANGED last_return
    /\ UNCHANGED <<now, config, recent_messages, sms_messages, running,
                   gateway_calls, faults, direct>>

process_bulk_sms(file, message_template) ==
    /\ running = NULL
    /\ file \in uploads
    /\ uploads' = uploads \ {file}
    /\ LET validation_result == validate_csv_file(file)
           valid_numbers == validation_result.valid_numbers
       IN  IF ~validation_result.success
           THEN /\ last_return' =
                       [NoReturn EXCEPT !.error = validation_result.error]
                /\ UNCHANGED <<bulk_sms_jobs, session, task>>
           ELSE IF valid_numbers = <<>>
           THEN /\ last_return' =
                       [NoReturn EXCEPT !.error = "No valid phone numbers"]
                /\ UNCHANGED <<bulk_sms_jobs, session, task>>
           ELSE \E job_id \in {uuid4} \ Created :
                /\ bulk_sms_jobs' =
                       Extend(bulk_sms_jobs, job_id,
                              NewJobRow(Len(valid_numbers), message_template))
                /\ session' = Extend(session, job_id, <<>>)
                /\ task' = Extend(task, job_id,
                                  NewTask(valid_numbers, message_template))
                /\ last_return' = [success |-> TRUE, error |-> NULL,
                                   job_id |-> job_id,
                                   total_count |-> Len(valid_numbers)]
    /\ UNCHANGED <<now, config, recent_messages, sms_messages, running,
                   gateway_calls, faults, direct>>

\* --------------------------------------------------------- _send_bulk_sms
SetTask(j, t) == task' = [task EXCEPT ![j] = t]

\* Lines 243-268: the service passed in, else the instance's, else
\* run_app.twilio_service when run_app is loaded.
ServiceFound(j) ==
    \/ task[j].twilio_service
    \/ self_twilio_service
    \/ (run_app_loaded /\ global_twilio_service)

\* Variant of ServiceUnavailable: line 275 assigns "failed", the commit
\* succeeds and the return of line 278 is missing, so the batch loop runs.
ServiceUnavailable_NoReturn(j) ==
    /\ bulk_sms_jobs' = [bulk_sms_jobs EXCEPT ![j].status = "failed"]
    /\ SetTask(j, [task[j] EXCEPT !.pc = "recipient"])
    /\ running' = j
    /\ UNCHANGED self_twilio_service

\* Variant of ServiceUnavailable: the missing handle is ignored and the
\* batch loop runs.
ServiceUnavailable_Proceeds(j) ==
    /\ SetTask(j, [task[j] EXCEPT !.pc = "recipient"])
    /\ running' = j
    /\ UNCHANGED <<bulk_sms_jobs, self_twilio_service>>

\* Variant of ServiceUnavailable: lines 275-278 as written with
\* BulkSMSJobStatus.FAILED evaluating to "failed": the status is committed
\* and the task returns, completed_at untouched.
ServiceUnavailable_AsWritten(j) ==
    /\ bulk_sms_jobs' = [bulk_sms_jobs EXCEPT ![j].status = "failed"]
    /\ SetTask(j, [task[j] EXCEPT !.pc = "done"])
    /\ running' = NULL
    /\ UNCHANGED self_twilio_service

\* Lines 271-278.  BulkSMSJobStatus is not a name of csv_processor.py, so
\* line 275 raises NameError before anything is assigned; the exception is
\* caught at line 411.
ServiceUnavailable(j) ==
    /\ SetTask(j, [task[j] EXCEPT !.pc = "except"])
    /\ running' = j
    /\ UNCHANGED <<bulk_sms_jobs, self_twilio_service>>

\* Lines 237-300, up to the first recipient.
TaskStart(j) ==
    /\ running = NULL
    /\ task[j].pc = "start"
    /\ IF ServiceFound(j)
       THEN /\ self_twilio_service' = TRUE
            /\ running' = j
            /\ SetTask(j, [task[j] EXCEPT !.pc = "recipient",
                                          !.batch_start = 0, !.i = 0])
            /\ UNCHANGED bulk_sms_jobs
       ELSE ServiceUnavailable(j)
    /\ UNCHANGED <<now, run_app_loaded, global_twilio_service,
                   recent_messages, sms_messages, session, gateway_calls,
                   faults, last_return, uploads, direct>>

\* Variant of Advance: a failed send ends the job.
Advance_AbortOnFailure(j, t) ==
    IF ~t.result.success /\ t.result.status # "duplicate_blocked"
    THEN [t EXCEPT !.pc = "except"]
    ELSE IF t.i + 1 < BatchLen(j)
    THEN [t EXCEPT !.i = t.i + 1, !.pc = "recipient"]
    ELSE [t EXCEPT !.pc = "commit"]

\* Variant of Advance: a failed send is tried again.
Advance_RetryOnFailure(j, t) ==
    IF ~t.result.success
    THEN [t EXCEPT !.pc = "recipient"]
    ELSE IF t.i + 1 < BatchLen(j)
    THEN [t EXCEPT !.i = t.i + 1, !.pc = "recipient"]
    ELSE [t EXCEPT !.pc = "commit"]

\* The for loops' next step after the recipient at Position(j): the next
\* recipient of the batch, or the batch's commit.
Advance(j, t) ==
    IF t.i + 1 < BatchLen(j)
    THEN [t EXCEPT !.i = t.i + 1, !.pc = "recipient"]
    ELSE [t EXCEPT !.pc = "commit"]

\* Variant of AfterSend: no sleep between the messages of a batch.
AfterSend_NoPause(j, t) == [t EXCEPT !.pc = "record"]

\* Lines 326-331 after send_sms returned: the pacing sleep, except after the
\* last recipient of the batch.
AfterSend(j, t) ==
    IF t.i < BatchLen(j) - 1
    THEN [t EXCEPT !.pc = "sleep_message",
                   !.wake = now + DELAY_BETWEEN_MESSAGES]
    ELSE [t EXCEPT !.pc = "record"]

\* Lines 310-322: the request guard is consulted when run_app is loaded; an
\* exception of the guard is logged and the recipient is sent.
RequestGuardFlags(phone_number, message_body) ==
    /\ run_app_loaded
    /\ LET answer == is_duplicate_request(phone_number, message_body,
                                          "bulk_sms_background")
       IN  ~answer.raised /\ answer.duplicate

\* Lines 304-331 for the recipient at Position(j), with
\* TwilioService.send_sms (lines 96-182).
SendRecipient(j) ==
    /\ running = j
    /\ task[j].pc = "recipient"
    /\ LET phone_number == _format_phone_number(Recipient(j).phone_number)
           message_body ==
               _personalize_message(task[j].message_template, Recipient(j))
           t0 == [task[j] EXCEPT !.phone_number = phone_number,
                                 !.message_body = message_body,
                                 !.attempted = @ \cup {Position(j)}]
       IN  IF RequestGuardFlags(phone_number, message_body)
           THEN /\ SetTask(j, Advance(j,
                       [t0 EXCEPT !.sent_count = @ + 1,
                                  !.suppressed = @ \cup {Position(j)}]))
                /\ running' = j
                /\ UNCHANGED <<recent_messages, gateway_calls>>
           ELSE LET guard == _is_duplicate(phone_number, message_body)
                IN  /\ recent_messages' = guard.recent_messages
                    /\ IF guard.duplicate
                       THEN /\ SetTask(j, AfterSend(j,
                                   [t0 EXCEPT !.result = DuplicateBlocked,
                                              !.suppressed =
                                                  @ \cup {Position(j)}]))
                            /\ UNCHANGED gateway_calls
                       ELSE \E answer \in GatewayResults :
                            /\ SetTask(j, AfterSend(j,
                                   [t0 EXCEPT !.result = answer,
                                              !.paused = {}]))
                            /\ gateway_calls' =
                                   Append(gateway_calls,
                                          [job |-> j, position |-> Position(j),
                                           to |-> phone_number,
                                           body |-> message_body,
                                           at |-> now])
                    /\ running' = IF task[j].i < BatchLen(j) - 1
                                  THEN NULL ELSE j
    /\ UNCHANGED <<now, config, bulk_sms_jobs, sms_messages, session, faults,
                   last_return, uploads, direct>>

\* await asyncio.sleep(delay_between_messages) returns.
WakeMessage(j) ==
    /\ running = NULL
    /\ task[j].pc = "sleep_message"
    /\ now >= task[j].wake
    /\ running' = j
    /\ SetTask(j, [task[j] EXCEPT !.pc = "record",
                                  !.paused = @ \cup {"message"}])
    /\ UNCHANGED <<now, config, recent_messages, bulk_sms_jobs, sms_messages,
                   session, gateway_calls, faults, last_return,
                   uploads, direct>>

\* Variant of ResultRows: a row for every result, duplicate_blocked
\* included.
ResultRows_Always(j) ==
    <<[job |-> j, position |-> Position(j),
       message_sid |-> task[j].result.message_sid,
       to_number |-> task[j].phone_number,
       message_body |-> task[j].message_body,
       status |-> IF task[j].result.status = NULL
                  THEN "failed" ELSE task[j].result.status]>>

\* Lines 334-348: the SMSMessage rows added for the result at hand.
ResultRows(j) ==
    IF task[j].result.status # "duplicate_blocked"
    THEN <<[job |-> j, position |-> Position(j),
            message_sid |-> task[j].result.message_sid,
            to_number |-> task[j].phone_number,
            message_body |-> task[j].message_body,
            status |-> IF task[j].result.status = NULL
                       THEN "failed" ELSE task[j].result.status]>>
    ELSE <<>>

\* Lines 350-355.
CountResult(j, t) ==
    IF t.result.success
    THEN [t EXCEPT !.sent_count = @ + 1]
    ELSE [t EXCEPT !.failed_count = @ + 1]

\* Lines 366-375: the row of the except clause of one recipient.
ExceptRow(j) ==
    [job |-> j, position |-> Position(j), message_sid |-> NULL,
     to_number |-> Recipient(j).phone_number,
     message_body |-> task[j].message_template, status |-> "failed"]

\* Lines 334-355, and lines 362-377 when db.add (line 346) raises.
RecordResult(j) ==
    /\ running = j
    /\ task[j].pc = "record"
    /\ \/ /\ session' = [session EXCEPT ![j] = @ \o ResultRows(j)]
          /\ SetTask(j, Advance(j, CountResult(j, task[j])))
          /\ UNCHANGED faults
       \/ /\ ResultRows(j) # <<>>
          /\ faults < MaxFaults
          /\ faults' = faults + 1
          /\ session' = [session EXCEPT ![j] = Append(@, ExceptRow(j))]
          /\ SetTask(j, Advance(j, [task[j] EXCEPT !.failed_count = @ + 1]))
       \/ \* db.add raises again at line 377: the exception leaves the loops
          /\ ResultRows(j) # <<>>
          /\ faults < MaxFaults
          /\ faults' = faults + 1
          /\ SetTask(j, [task[j] EXCEPT !.failed_count = @ + 1,
                                        !.pc = "except", !.escaped = TRUE])
          /\ UNCHANGED session
    /\ UNCHANGED <<now, config, recent_messages, bulk_sms_jobs, sms_messages,
                   running, gateway_calls, last_return, uploads, direct>>

\* A db.commit() that raises rolls the session back: the rows added since
\* the last commit and the unflushed column changes are gone.
\* Variant of CommitBatch: a commit that raises is not caught at line 383
\* and leaves the batch loop.
CommitBatch_Abort(j) ==
    /\ running = j
    /\ task[j].pc = "commit"
    /\ \/ /\ sms_messages' = sms_messages \o session[j]
          /\ SetTask(j, [task[j] EXCEPT !.pc = "update"])
          /\ UNCHANGED faults
       \/ /\ faults < MaxFaults
          /\ faults' = faults + 1
          /\ SetTask(j, [task[j] EXCEPT !.pc = "except", !.escaped = TRUE])
          /\ UNCHANGED sms_messages
    /\ session' = [session EXCEPT ![j] = <<>>]
    /\ UNCHANGED <<now, config, recent_messages, bulk_sms_jobs, running,
                   gateway_calls, last_return, uploads, direct>>

\* Lines 379-384: the commit of the rows added for the batch.
CommitBatch(j) ==
    /\ running = j
    /\ task[j].pc = "commit"
    /\ \/ /\ sms_messages' = sms_messages \o session[j]
          /\ UNCHANGED faults
       \/ /\ faults < MaxFaults
          /\ faults' = faults + 1
          /\ UNCHANGED sms_messages
    /\ session' = [session EXCEPT ![j] = <<>>]
    /\ SetTask(j, [task[j] EXCEPT !.pc = "update"])
    /\ UNCHANGED <<now, config, recent_messages, bulk_sms_jobs, running,
                   gateway_calls, last_return, uploads, direct>>

\* Lines 386-400: the job's counters are set and committed, in a commit of
\* their own; then the pause before the next batch.
UpdateJob(j) ==
    /\ running = j
    /\ task[j].pc = "update"
    /\ \/ /\ bulk_sms_jobs' =
                 [bulk_sms_jobs EXCEPT
                     ![j].sent_count = task[j].sent_count,
                     ![j].failed_count = task[j].failed_count]
          /\ UNCHANGED faults
       \/ /\ faults < MaxFaults
          /\ faults' = faults + 1
          /\ UNCHANGED bulk_sms_jobs
    /\ IF BatchEnd(j) < TotalRecipients(j)
       THEN /\ SetTask(j, [task[j] EXCEPT
                              !.pc = "sleep_batch",
                              !.wake = now + DELAY_BETWEEN_BATCHES])
            /\ running' = NULL
       ELSE /\ SetTask(j, [task[j] EXCEPT !.pc = "complete"])
            /\ running' = j
    /\ UNCHANGED <<now, config, recent_messages, sms_messages, session,
                   gateway_calls, last_return, uploads, direct>>

\* await asyncio.sleep(delay_between_batches) returns: the next batch.
WakeBatch(j) ==
    /\ running = NULL
    /\ task[j].pc = "sleep_batch"
    /\ now >= task[j].wake
    /\ running' = j
    /\ SetTask(j, [task[j] EXCEPT !.batch_start = BatchEnd(j), !.i = 0,
                                  !.pc = "recipient",
                                  !.paused = @ \cup {"batch"}])
    /\ UNCHANGED <<now, config, recent_messages, bulk_sms_jobs, sms_messages,
                   session, gateway_calls, faults, last_return,
                   uploads, direct>>

\* Variant of Complete: the task ends without writing the status.
Complete_NoStatus(j) ==
    /\ running = j
    /\ task[j].pc = "complete"
    /\ sms_messages' = sms_messages \o session[j]
    /\ session' = [session EXCEPT ![j] = <<>>]
    /\ SetTask(j, [task[j] EXCEPT !.pc = "done"])
    /\ running' = NULL
    /\ UNCHANGED <<now, config, recent_messages, bulk_sms_jobs,
                   gateway_calls, faults, last_return, uploads, direct>>

\* Lines 402-409.
Complete(j) ==
    /\ running = j
    /\ task[j].pc = "complete"
    /\ bulk_sms_jobs' = [bulk_sms_jobs EXCEPT ![j].status = "completed",
                                              ![j].completed_at = Some(now)]
    /\ sms_messages' = sms_messages \o session[j]
    /\ session' = [session EXCEPT ![j] = <<>>]
    /\ SetTask(j, [task[j] EXCEPT !.pc = "done"])
    /\ running' = NULL
    /\ UNCHANGED <<now, config, recent_messages, gateway_calls, faults,
                   last_return, uploads, direct>>

\* Variant of Except: the job is marked failed, completed_at untouched.
Except_NoStamp(j) ==
    /\ running = j
    /\ task[j].pc = "except"
    /\ bulk_sms_jobs' = [bulk_sms_jobs EXCEPT ![j].status = "failed"]
    /\ sms_messages' = sms_messages \o session[j]
    /\ session' = [session EXCEPT ![j] = <<>>]
    /\ SetTask(j, [task[j] EXCEPT !.pc = "done"])
    /\ running' = NULL
    /\ UNCHANGED <<now, config, recent_messages, gateway_calls, faults,
                   last_return, uploads, direct>>

\* Lines 411-419: the job is marked failed; the commit also flushes the rows
\* the session still holds.
Except(j) ==
    /\ running = j
    /\ task[j].pc = "except"
    /\ bulk_sms_jobs' = [bulk_sms_jobs EXCEPT ![j].status = "failed",
                                              ![j].completed_at = Some(now)]
    /\ sms_messages' = sms_messages \o session[j]
    /\ session' = [session EXCEPT ![j] = <<>>]
    /\ SetTask(j, [task[j] EXCEPT !.pc = "done"])
    /\ running' = NULL
    /\ UNCHANGED <<now, config, recent_messages, gateway_calls, faults,
                   last_return, uploads, direct>>

\* A second passes.  The clock is followed up to MaxTime, and beyond it
\* only as long as a sleeping task waits for its time to wake.
Tick ==
    /\ \/ now < MaxTime
       \/ \E j \in Created :
              /\ task[j].pc \in {"sleep_message", "sleep_batch"}
              /\ task[j].wake > now
    /\ \E j \in Created : task[j].pc # "done"
    /\ now' = now + 1
    /\ UNCHANGED <<config, recent_messages, bulk_sms_jobs, sms_messages,
                   session, task, running, gateway_calls, faults, last_return,
                   uploads, direct>>

Next ==
    \/ \E file \in Files, message_template \in Templates :
           process_bulk_sms(file, message_template)
    \/ \E j \in Created : TaskStart(j)
    \/ \E j \in Created : SendRecipient(j)
    \/ \E j \in Created : WakeMessage(j)
    \/ \E j \in Created : RecordResult(j)
    \/ \E j \in Created : CommitBatch(j)
    \/ \E j \in Created : UpdateJob(j)
    \/ \E j \in Created : WakeBatch(j)
    \/ \E j \in Created : Complete(j)
    \/ \E j \in Created : Except(j)
    \/ Tick

Spec == Init /\ [][Next]_vars

\* The steps of the task of job j.
TaskStep(j) ==
    /\ j \in Created
    /\ \/ TaskStart(j)
       \/ SendRecipient(j)
       \/ WakeMessage(j)
       \/ RecordResult(j)
       \/ CommitBatch(j)
       \/ UpdateJob(j)
       \/ WakeBatch(j)
       \/ Complete(j)
       \/ Except(j)

\* A client submits the file of two batches, to a process with a gateway
\* handle or to one without.
LiveInit ==
    /\ InitProcess
    /\ run_app_loaded = self_twilio_service
    /\ uploads = {CsvFile(LongRows)}

\* The process keeps running: the event loop runs a task that is ready,
\* client.messages.create and the store return, and time passes.
LiveSpec ==
    /\ LiveInit
    /\ [][Next]_vars
    /\ WF_vars(Tick)
    /\ \A j \in JobIds : WF_vars(TaskStep(j))

\* ------------------------------------------------------ two jobs at once
\* Two clients submit a file each, with the same template; the second call
\* of process_bulk_sms can come while the task of the first job sleeps.
\* The jobs have fewer than eleven recipients, hence one batch, and the
\* store raises nothing in these runs, so no task reaches the sleep between
\* batches or the except clause of line 411.
ConcurrentUploads ==
    { {CsvFile(<<RowA, RowB>>), CsvFile(<<RowA, RowA2>>)},
      {CsvFile(<<RowA, RowB>>), CsvFile(<<RowA>>)} }

ConcurrentInit ==
    /\ now = 0
    /\ self_twilio_service = TRUE
    /\ run_app_loaded = TRUE
    /\ global_twilio_service = TRUE
    /\ recent_messages = EmptyMap
    /\ bulk_sms_jobs = EmptyMap
    /\ sms_messages = <<>>
    /\ session = EmptyMap
    /\ task = EmptyMap
    /\ running = NULL
    /\ gateway_calls = <<>>
    /\ faults = MaxFaults
    /\ last_return = NoReturn
    /\ last_call = NoCall
    /\ accepted = EmptyMap
    /\ uploads \in ConcurrentUploads

ConcurrentNext ==
    \/ \E file \in Files : process_bulk_sms(file, TemplateHiName)
    \/ \E j \in Created : TaskStart(j)
    \/ \E j \in Created : SendRecipient(j)
    \/ \E j \in Created : WakeMessage(j)
    \/ \E j \in Created : RecordResult(j)
    \/ \E j \in Created : CommitBatch(j)
    \/ \E j \in Created : UpdateJob(j)
    \/ \E j \in Created : Complete(j)
    \/ Tick

ConcurrentSpec == ConcurrentInit /\ [][ConcurrentNext]_vars

\* ---------------------------------------------------- functions, directly
\* The functions of CSVProcessor called one at a time, outside any job.
MaxLen == 4

store == <<now, config, recent_messages, bulk_sms_jobs, sms_messages,
           session, task, running, gateway_calls, faults, last_return,
           uploads>>

\* The texts of at most n characters over an alphabet.
Texts(alphabet, n) == UNION {[1..k -> alphabet] : k \in 0..n}

NumberInputs == Texts({"+", "0", "1", "5"}, MaxLen)

\* The largest number of recipients the batch size is computed for.
MaxRecipients == 2100

\* A row whose name is the other placeholder.
RowInject == [phone_number |-> Text_plus15, name |-> PLACEHOLDER_CUSTOM,
              custom_field |-> <<"X">>]
RowFull == [phone_number |-> Text_plus16, name |-> Text_Bo,
            custom_field |-> <<"X">>]

ProbeFiles ==
    Files \cup
    { [readable |-> TRUE,
       columns |-> {"phone_number", "name", "custom_field"},
       rows |-> <<RowInject, RowNoName, RowA, RowFull, RowBad>>],
      [readable |-> TRUE, columns |-> {"phone_number", "custom_field"},
       rows |-> <<RowFull, RowA>>],
      [readable |-> TRUE, columns |-> {"phone_number"},
       rows |-> <<RowA, RowBad>>] }

\* The recipients validate_csv_file makes of these files.
Recipients ==
    UNION {{validate_csv_file(file).valid_numbers[n] :
               n \in 1..Len(validate_csv_file(file).valid_numbers)} :
           file \in ProbeFiles}

ProbeTemplates ==
    { TemplateHiName, <<>>, <<"H", "i">>, PLACEHOLDER_CUSTOM,
      PLACEHOLDER_NAME \o PLACEHOLDER_CUSTOM,
      PLACEHOLDER_NAME \o <<" ">> \o PLACEHOLDER_NAME }

\* The functions do not depend on how the process was started.
FunInit ==
    /\ InitProcess
    /\ self_twilio_service /\ run_app_loaded
    /\ uploads = {}

FormatNumber(phone_number) ==
    /\ last_call' = [op |-> "_format_phone_number", input |-> phone_number,
                     output |-> _format_phone_number(phone_number),
                     first |-> phone_number, again |-> FALSE]
    /\ UNCHANGED <<store, accepted>>

\* Line 304: the scheduler formats what validate_csv_file has formatted.
FormatAgain ==
    /\ last_call.op = "_format_phone_number"
    /\ ~last_call.again
    /\ last_call' = [op |-> "_format_phone_number",
                     input |-> last_call.output,
                     output |-> _format_phone_number(last_call.output),
                     first |-> last_call.input, again |-> TRUE]
    /\ UNCHANGED <<store, accepted>>

ValidateFile(file) ==
    /\ last_call' = [op |-> "validate_csv_file", input |-> file,
                     output |-> validate_csv_file(file)]
    /\ UNCHANGED <<store, accepted>>

PersonalizeMessage(template, recipient) ==
    /\ last_call' = [op |-> "_personalize_message",
                     input |-> [template |-> template,
                                recipient |-> recipient],
                     output |-> _personalize_message(template, recipient)]
    /\ UNCHANGED <<store, accepted>>

FunNext ==
    \/ \E phone_number \in NumberInputs : FormatNumber(phone_number)
    \/ FormatAgain
    \/ \E file \in ProbeFiles : ValidateFile(file)
    \/ \E template \in ProbeTemplates, recipient \in Recipients :
           PersonalizeMessage(template, recipient)

FunSpec == FunInit /\ [][FunNext]_vars

\* Line 282 for a list of total_recipients recipients.  The result depends
\* on nothing but the argument, so a run makes one call.
ComputeBatchSize(total_recipients) ==
    /\ last_call = NoCall
    /\ last_call' = [op |-> "batch_size", input |-> total_recipients,
                     output |-> BatchSize(total_recipients)]
    /\ UNCHANGED <<store, accepted>>

BatchNext ==
    \E total_recipients \in 1..MaxRecipients :
        ComputeBatchSize(total_recipients)

BatchSpec == FunInit /\ [][BatchNext]_vars

\* ------------------------------------------------------- guards, directly
\* The two guards called one at a time, as the endpoints of run_app.py call
\* them (is_duplicate_request at line 1331, send_sms and with it
\* _is_duplicate at line 1248 with the to_number of the request as it came).
GuardCalls ==
    { [identity |-> <<"+", "1">>, body |-> <<"5", ":", "x">>],
      [identity |-> <<"+", "1">>, body |-> <<"5", ":", "X">>],
      [identity |-> <<"+", "1", ":", "5">>, body |-> <<"x">>] }

Sources == {"single_sms_endpoint", "bulk_sms_background"}

\* The entry of accepted for a call that was let through now.
LetThrough(op, call) ==
    Extend(accepted, <<op, call.identity, call.body>>,
           [at |-> now, repeated |-> FALSE])

\* The entry of accepted for a call that was answered "duplicate".
Repeated(op, call) ==
    [e \in DOMAIN accepted |->
        IF e = <<op, call.identity, call.body>>
        THEN [accepted[e] EXCEPT !.repeated = TRUE] ELSE accepted[e]]

GuardInit ==
    /\ InitProcess
    /\ self_twilio_service /\ run_app_loaded
    /\ uploads = {}

\* One call of TwilioService._is_duplicate.
CallTransportGuard(call) ==
    LET guard == _is_duplicate(call.identity, call.body)
    IN  /\ recent_messages' = guard.recent_messages
        /\ last_call' =
               [op |-> "_is_duplicate", input |-> call, source |-> NULL,
                at |-> now,
                output |-> IF guard.duplicate THEN "duplicate" ELSE "accepted",
                recent_messages |-> recent_messages, accepted |-> accepted]
        /\ accepted' = IF guard.duplicate
                       THEN Repeated("_is_duplicate", call)
                       ELSE LetThrough("_is_duplicate", call)
        /\ UNCHANGED <<now, config, bulk_sms_jobs, sms_messages, session,
                       task, running, gateway_calls, faults, last_return,
                       uploads>>

\* One call of run_app.is_duplicate_request.
CallRequestGuard(call, source) ==
    LET answer == is_duplicate_request(call.identity, call.body, source)
        output == IF answer.raised THEN "raised"
                  ELSE IF answer.duplicate THEN "duplicate" ELSE "accepted"
    IN  /\ last_call' =
               [op |-> "is_duplicate_request", input |-> call,
                source |-> source, at |-> now, output |-> output,
                recent_messages |-> recent_messages, accepted |-> accepted]
        /\ accepted' =
               CASE output = "accepted" ->
                        LetThrough("is_duplicate_request", call)
                 [] output = "duplicate" ->
                        Repeated("is_duplicate_request", call)
                 [] OTHER -> accepted
        /\ UNCHANGED store

\* The clock of the guards is followed for MaxTime seconds, and for MaxTime
\* seconds more after one long pause: long enough for an entry made before
\* the pause to be past its retention while an entry made after it is
\* still inside the window.
LongPause == RETENTION - TRANSPORT_WINDOW + 2

GuardTick ==
    /\ \/ /\ now % LongPause < MaxTime
          /\ now' = now + 1
       \/ /\ now < LongPause
          /\ now' = now + LongPause
    /\ UNCHANGED <<config, recent_messages, bulk_sms_jobs, sms_messages,
                   session, task, running, gateway_calls, faults, last_return,
                   uploads, direct>>

GuardNext ==
    \/ \E call \in GuardCalls : CallTransportGuard(call)
    \/ \E call \in GuardCalls, source \in Sources :
           CallRequestGuard(call, source)
    \/ GuardTick

GuardSpec == GuardInit /\ [][GuardNext]_vars

\* ------------------------------------------------- the send endpoints
\* The two POST handlers of run_app.py that send, called one at a time, by
\* clients that repeat their requests.
\* What a handler answers: the HTTP status, and the success field of the
\* body; an exception that leaves the handler is answered with status 500.
Response(success) == [status |-> 200, success |-> success]
ServerError == [status |-> 500, success |-> NULL]

\* Whether a request repeats one made less than REQUEST_WINDOW seconds ago
\* on the same endpoint.
Repeats(op, call) ==
    /\ <<op, call.identity, call.body>> \in DOMAIN accepted
    /\ now - accepted[<<op, call.identity, call.body>>].at < REQUEST_WINDOW

\* accepted after a request: the time of a request that repeats none.
Requested(op, call) ==
    IF Repeats(op, call) THEN Repeated(op, call) ELSE LetThrough(op, call)

\* Lines 1378-1392: the row of a single send.
EndpointRow(call, result) ==
    [job |-> NULL, position |-> 0, message_sid |-> result.message_sid,
     to_number |-> call.identity, message_body |-> call.body,
     status |-> IF result.status = NULL THEN "failed" ELSE result.status]

\* run_app.send_sms, lines 1326-1424, with Twilio configured.  The guard is
\* called outside the try of line 1368, so what it raises leaves the
\* handler.
send_sms(call) ==
    LET answer == is_duplicate_request(call.identity, call.body,
                                       "single_sms_endpoint")
        guard == _is_duplicate(call.identity, call.body)
        Answered(output) ==
            last_call' = [op |-> "send_sms", input |-> call, at |-> now,
                          repeats |-> Repeats("send_sms", call),
                          saved |-> FALSE, output |-> output]
    IN  /\ accepted' = Requested("send_sms", call)
        /\ IF answer.raised
           THEN /\ Answered(ServerError)
                /\ UNCHANGED <<recent_messages, gateway_calls, sms_messages>>
           ELSE IF answer.duplicate
           THEN /\ Answered(Response(FALSE))
                /\ UNCHANGED <<recent_messages, gateway_calls, sms_messages>>
           ELSE /\ recent_messages' = guard.recent_messages
                /\ IF guard.duplicate
                   THEN /\ Answered(Response(DuplicateBlocked.success))
                        /\ UNCHANGED <<gateway_calls, sms_messages>>
                   ELSE \E result \in GatewayResults :
                        /\ gateway_calls' =
                               Append(gateway_calls,
                                      [job |-> NULL, position |-> 0,
                                       to |-> call.identity,
                                       body |-> call.body, at |-> now])
                        /\ sms_messages' =
                               Append(sms_messages, EndpointRow(call, result))
                        /\ Answered(Response(result.success))
        /\ UNCHANGED <<now, config, bulk_sms_jobs, session, task, running,
                       faults, last_return, uploads>>

\* f"bulk_{file.filename}", line 1446.
BulkIdentity(filename) == <<"b", "u", "l", "k", "_">> \o filename

\* run_app.send_bulk_sms, lines 1426-1536, with Twilio configured and a
\* file name that ends in ".csv".  The guard is called inside the try of
\* line 1433, so what it raises is answered by the except clause of line
\* 1519, before any file is written.
send_bulk_sms(filename, file, message_template) ==
    LET call == [identity |-> BulkIdentity(filename),
                 body |-> message_template]
        answer == is_duplicate_request(call.identity, call.body,
                                       "bulk_sms_endpoint")
        validation_result == validate_csv_file(file)
        valid_numbers == validation_result.valid_numbers
        Answered(output, saved) ==
            last_call' = [op |-> "send_bulk_sms", input |-> call, at |-> now,
                          repeats |-> Repeats("send_bulk_sms", call),
                          saved |-> saved, output |-> output]
    IN  /\ accepted' = Requested("send_bulk_sms", call)
        /\ IF answer.raised \/ answer.duplicate
           THEN /\ Answered(Response(FALSE), FALSE)
                /\ UNCHANGED <<bulk_sms_jobs, session, task, last_return>>
           ELSE IF ~validation_result.success \/ valid_numbers = <<>>
           THEN \* the file is written (line 1482) and removed (line 1511)
                /\ Answered(Response(FALSE), FALSE)
                /\ last_return' = [NoReturn EXCEPT !.error = "error"]
                /\ UNCHANGED <<bulk_sms_jobs, session, task>>
           ELSE /\ Answered(Response(TRUE), TRUE)
                /\ bulk_sms_jobs' =
                       Extend(bulk_sms_jobs, uuid4,
                              NewJobRow(Len(valid_numbers), message_template))
                /\ session' = Extend(session, uuid4, <<>>)
                /\ task' = Extend(task, uuid4,
                                  NewTask(valid_numbers, message_template))
                /\ last_return' = [success |-> TRUE, error |-> NULL,
                                   job_id |-> uuid4,
                                   total_count |-> Len(valid_numbers)]
        /\ UNCHANGED <<now, config, recent_messages, sms_messages, running,
                       gateway_calls, faults, uploads>>

\* "a.csv"
FileNames == {<<"a", ".", "c", "s", "v">>}

\* The single send clients request: "x" to "+1:5".
EndpointCalls == {[identity |-> <<"+", "1", ":", "5">>, body |-> <<"x">>]}

EndpointNext ==
    \/ \E call \in EndpointCalls : send_sms(call)
    \/ \E filename \in FileNames :
           send_bulk_sms(filename, CsvFile(<<RowA, RowB>>), TemplateHiName)
    \/ GuardTick

EndpointSpec == GuardInit /\ [][EndpointNext]_vars

\* ------------------------------------------------ the Twilio status webhook
\* The MessageStatus values Twilio posts to the status callback.
MessageStatuses == {"delivered", "undelivered"}

\* SMSMessage rows filtered by message_sid, .first(): the index of the row,
\* 0 when there is none.
FirstWithSid(message_sid) ==
    LET found == {n \in 1..Len(sms_messages) :
                     sms_messages[n].message_sid = message_sid}
    IN  IF found = {} THEN 0
        ELSE CHOOSE n \in found : \A m \in found : n <= m

\* run_app.webhook_status_callback, lines 1701-1733, for a form with a
\* MessageSid and a MessageStatus: the row of that sid takes the posted
\* status.  The handler has a session of its own and runs when no task does.
webhook_status_callback(MessageSid, MessageStatus) ==
    /\ running = NULL
    /\ FirstWithSid(MessageSid) # 0
    /\ sms_messages' =
           [sms_messages EXCEPT ![FirstWithSid(MessageSid)].status =
                                    MessageStatus]
    /\ UNCHANGED <<now, config, recent_messages, bulk_sms_jobs, session, task,
                   running, gateway_calls, faults, last_return, uploads,
                   direct>>

\* The scheduler beside the webhook endpoint.
HistoryNext ==
    \/ Next
    \/ \E MessageStatus \in MessageStatuses :
           webhook_status_callback("SM", MessageStatus)

HistorySpec == Init /\ [][HistoryNext]_vars

\* ------------------------------------------------------------ properties
StatusOf(j) == bulk_sms_jobs[j].status
Terminal == {"completed", "failed"}
Stored == DOMAIN bulk_sms_jobs

\* The gateway calls made for the recipient at position p of job j.
CallsFor(j, p) ==
    {n \in 1..Len(gateway_calls) :
        gateway_calls[n].job = j /\ gateway_calls[n].position = p}

\* The committed sms_messages rows of job j.
RowsOf(j) == {n \in 1..Len(sms_messages) : sms_messages[n].job = j}

\* No gateway handle: nothing passed to the task, nothing on the instance,
\* nothing to fall back on.
NoHandle(j) ==
    /\ ~task[j].twilio_service
    /\ ~self_twilio_service
    /\ ~(run_app_loaded /\ global_twilio_service)

StatusRank(status) ==
    CASE status = "pending" -> 0
      [] status = "processing" -> 1
      [] OTHER -> 2

\* C1: the stored status of a job only moves forward along
\* pending -> processing -> {completed, failed}: no step lowers it, no step
\* removes the job, and no step changes a completed or failed status.
C1_StatusMovesForward ==
    [][\A j \in Stored :
          /\ j \in DOMAIN bulk_sms_jobs'
          /\ StatusRank(bulk_sms_jobs'[j].status) >= StatusRank(StatusOf(j))
          /\ StatusOf(j) \in Terminal
                => bulk_sms_jobs'[j].status = StatusOf(j)
          /\ bulk_sms_jobs'[j].status
                \in {"pending", "processing", "completed", "failed"}]_vars

\* A job that ran its batches to the end and one that was marked failed
\* both exist only in separate runs; this is the first.
C1_Witness ==
    \E j \in Stored :
        /\ StatusOf(j) = "completed"
        /\ task[j].pc = "done"
        /\ now > bulk_sms_jobs[j].created_at

\* C2: with a gateway handle and no exception leaving the batch loop, a
\* finished task has attempted every recipient and left the job completed,
\* whatever the gateway answered; a job is failed only without a handle or
\* after an exception left the loop.
C2_FailedSendsDoNotFailJob ==
    \A j \in Created :
        /\ (task[j].pc = "done" /\ ~NoHandle(j) /\ ~task[j].escaped)
              => /\ StatusOf(j) = "completed"
                 /\ task[j].attempted = 1..TotalRecipients(j)
        /\ StatusOf(j) = "failed" => (NoHandle(j) \/ task[j].escaped)
        /\ (task[j].pc = "except") => (NoHandle(j) \/ task[j].escaped)

\* Every send of a job of two recipients failed, and the job is completed.
C2_Witness ==
    \E j \in Created :
        /\ StatusOf(j) = "completed"
        /\ TotalRecipients(j) >= 2
        /\ task[j].failed_count = TotalRecipients(j)
        /\ Cardinality(CallsFor(j, 1)) = 1
        /\ Cardinality(CallsFor(j, 2)) = 1

\* C3: the gateway is called at most once for each recipient of a job, not
\* at all for a recipient suppressed as a duplicate, and exactly once for
\* every other recipient by the time the job is completed.
C3_OneGatewayCallPerRecipient ==
    \A j \in Created :
        \A p \in 1..TotalRecipients(j) :
            /\ Cardinality(CallsFor(j, p)) <= 1
            /\ p \in task[j].suppressed => CallsFor(j, p) = {}
            /\ (StatusOf(j) = "completed" /\ p \notin task[j].suppressed)
                  => Cardinality(CallsFor(j, p)) = 1

\* A completed job with a suppressed recipient, a failed send and a
\* successful send.
C3_Witness ==
    \E j \in Created :
        /\ StatusOf(j) = "completed"
        /\ task[j].suppressed # {}
        /\ task[j].failed_count >= 1
        /\ \E n \in RowsOf(j) : sms_messages[n].status = "queued"

PersistedSum(j) ==
    bulk_sms_jobs[j].sent_count + bulk_sms_jobs[j].failed_count

\* C4: a completed job's stored sent_count plus failed_count equals its
\* total_count.
C4_CountersAddUp ==
    \A j \in Stored :
        StatusOf(j) = "completed"
            => PersistedSum(j) = bulk_sms_jobs[j].total_count

\* C5: without a gateway handle the task makes no gateway call, adds and
\* stores no sms_messages row, attempts no recipient, and ends with the
\* job failed.
C5_NoHandleFailsJob ==
    \A j \in Created :
        NoHandle(j) =>
            /\ \A p \in 1..TotalRecipients(j) : CallsFor(j, p) = {}
            /\ RowsOf(j) = {}
            /\ session[j] = <<>>
            /\ task[j].attempted = {}
            /\ task[j].pc \in {"start", "except", "done"}
            /\ task[j].pc = "done" => StatusOf(j) = "failed"

C5_Witness ==
    \E j \in Created :
        /\ NoHandle(j)
        /\ task[j].pc = "done"
        /\ StatusOf(j) = "failed"
        /\ TotalRecipients(j) >= 2
        /\ gateway_calls = <<>>
        /\ sms_messages = <<>>

IsPrefix(s, t) ==
    /\ Len(s) <= Len(t)
    /\ SubSeq(t, 1, Len(s)) = s

\* C6: once an exception has left the batch loop, the sms_messages rows
\* already stored stay as they are, the stored counters of the job keep
\* their values, and the task ends with the job failed and completed_at
\* set.
C6_EscapedExceptionFailsJob ==
    [][\A j \in Created :
          task'[j].escaped =>
              /\ IsPrefix(sms_messages, sms_messages')
              /\ bulk_sms_jobs'[j].sent_count = bulk_sms_jobs[j].sent_count
              /\ bulk_sms_jobs'[j].failed_count
                     = bulk_sms_jobs[j].failed_count
              /\ task'[j].pc \in {"except", "done"}
              /\ task'[j].pc = "done"
                    => /\ bulk_sms_jobs'[j].status = "failed"
                       /\ bulk_sms_jobs'[j].completed_at # None]_vars

\* The exception left the loop in the second batch, after the first
\* batch's rows and counters were committed.
C6_Witness ==
    \E j \in Created :
        /\ task[j].escaped
        /\ task[j].pc = "done"
        /\ task[j].batch_start > 0
        /\ StatusOf(j) = "failed"
        /\ bulk_sms_jobs[j].completed_at # None
        /\ RowsOf(j) # {}
        /\ PersistedSum(j) = task[j].batch_start

\* C7: completed_at is null while the status is pending or processing and
\* set while it is completed or failed.
C7_CompletedAtIffTerminal ==
    \A j \in Stored :
        /\ StatusOf(j) \in {"pending", "processing"}
              => bulk_sms_jobs[j].completed_at = None
        /\ StatusOf(j) \in Terminal
              => bulk_sms_jobs[j].completed_at # None

\* The path of the missing gateway handle.
C7_Witness ==
    \E j \in Created :
        /\ NoHandle(j)
        /\ StatusOf(j) = "failed"
        /\ bulk_sms_jobs[j].completed_at = Some(now)
        /\ now > bulk_sms_jobs[j].created_at

InLoop == {"recipient", "sleep_message", "record", "commit", "update",
           "sleep_batch", "complete"}

C9_DuplicateCountsAsSent ==
    [][\A j \in Created :
          LET t == task[j]
              u == task'[j]
              flagged == u.suppressed \ t.suppressed
          IN  /\ flagged # {}
                    => /\ gateway_calls' = gateway_calls
                       /\ u.failed_count = t.failed_count
                       /\ u.pc \notin {"record", "sleep_message"}
                             => u.sent_count = t.sent_count + 1
              /\ (t.pc = "record" /\ u.pc # "record"
                    /\ Position(j) \in t.suppressed)
                    => /\ u.sent_count = t.sent_count + 1
                       /\ u.failed_count = t.failed_count
                       /\ gateway_calls' = gateway_calls
              /\ (u.pc = "done" /\ u.suppressed # {} /\ ~u.escaped)
                    => bulk_sms_jobs'[j].status = "completed"]_vars

\* Two rows with the same number and body, sent within the window: one
\* gateway call, both counted as sent.
C9_Witness ==
    \E j \in Created :
        /\ StatusOf(j) = "completed"
        /\ task[j].suppressed = {2}
        /\ TotalRecipients(j) = 2
        /\ bulk_sms_jobs[j].sent_count = 2
        /\ bulk_sms_jobs[j].failed_count = 0
        /\ Cardinality(CallsFor(j, 1)) = 1
        /\ CallsFor(j, 2) = {}

RowsAt(j, p) == {n \in RowsOf(j) : sms_messages[n].position = p}

C14_InputErrorsCreateNoJob ==
    /\ \A j \in Created :
          /\ task[j].message_template # <<>>
          /\ task[j].recipients # <<>>
    /\ (uploads = {} /\ ~last_return.success)
          => /\ last_return.error # NULL
             /\ Stored = {}
             /\ Created = {}
             /\ gateway_calls = <<>>

\* validate_csv_file and read_csv on each of the files.
Validation == [file \in Files |-> validate_csv_file(file)]
Frames == [file \in Files |-> read_csv(file)]

\* The file a job was created from.
SourceOf(j) ==
    CHOOSE file \in Files :
        /\ Validation[file].success
        /\ Validation[file].valid_numbers = task[j].recipients

\* The phone number validate_csv_file reads in a row of the data frame.
PhoneOf(frame, index) == Strip(Str(frame[index].phone_number))

\* The rows a job has added to its session or stored.
AttemptRows(j) ==
    {sms_messages[n] : n \in RowsOf(j)}
        \cup {session[j][n] : n \in 1..Len(session[j])}

\* C15: a row of the source whose phone number fails validation is in the
\* invalid list with a non-empty reason and not in the valid list; and
\* every gateway call and every sms_messages row of the job is for a row
\* of the source that passes validation, addressed to that row's
\* formatted number.
C15_InvalidRowsNeverDispatched ==
    \A j \in Created :
        LET result == Validation[SourceOf(j)]
            frame == Frames[SourceOf(j)]
            valid == result.valid_numbers
            invalid == result.invalid_numbers
            Dispatched(position, to_number) ==
                /\ position \in 1..Len(task[j].recipients)
                /\ LET index == task[j].recipients[position].row
                   IN  /\ index \in 1..Len(frame)
                       /\ _validate_phone_number(PhoneOf(frame, index))
                       /\ to_number
                            = _format_phone_number(PhoneOf(frame, index))
        IN  /\ \A index \in 1..Len(frame) :
                  ~_validate_phone_number(PhoneOf(frame, index))
                      => /\ \E n \in 1..Len(invalid) :
                                /\ invalid[n].row = index
                                /\ invalid[n].error # ""
                         /\ \A n \in 1..Len(valid) : valid[n].row # index
            /\ \A n \in 1..Len(gateway_calls) :
                  gateway_calls[n].job = j
                      => Dispatched(gateway_calls[n].position,
                                    gateway_calls[n].to)
            /\ \A row \in AttemptRows(j) :
                  Dispatched(row.position, row.to_number)

\* A job from a file of three rows, the second invalid: both valid rows
\* were sent and recorded, and the job is completed.
C15_Witness ==
    \E j \in Created :
        /\ Len(Frames[SourceOf(j)]) = 3
        /\ Len(Validation[SourceOf(j)].invalid_numbers) = 1
        /\ TotalRecipients(j) = 2
        /\ StatusOf(j) = "completed"
        /\ CallsFor(j, 1) # {}
        /\ CallsFor(j, 2) # {}
        /\ Cardinality(RowsOf(j)) = 2

\* C20: the step that creates a job hands its job_id back to the caller,
\* makes no gateway call and leaves the job's task at its start; a gateway
\* call for a job is made in a later step than the one that created it.
C20_ReturnsBeforeFirstSend ==
    [][/\ \A j \in (DOMAIN task') \ Created :
             /\ last_return'.success
             /\ last_return'.job_id = j
             /\ last_return'.total_count = Len(task'[j].recipients)
             /\ task'[j].pc = "start"
             /\ gateway_calls' = gateway_calls
       /\ \A n \in (Len(gateway_calls) + 1)..Len(gateway_calls') :
             gateway_calls'[n].job \in Created]_vars

\* The caller has the job_id, and the first gateway call has been made.
C20_Witness ==
    \E j \in Created :
        /\ last_return.success
        /\ last_return.job_id = j
        /\ task[j].pc \in {"sleep_message", "record"}
        /\ Position(j) = 1
        /\ Cardinality(CallsFor(j, 1)) = 1

\* C16: for a readable file with the phone_number column, every row is in
\* exactly one of the valid and the invalid list, and the two counts add up
\* to the number of rows.
C16_ValidPlusInvalidIsTotal ==
    (/\ last_call.op = "validate_csv_file"
     /\ last_call.input.readable
     /\ "phone_number" \in last_call.input.columns)
        => LET result == last_call.output
               valid == {result.valid_numbers[n].row :
                            n \in 1..Len(result.valid_numbers)}
               invalid == {result.invalid_numbers[n].row :
                              n \in 1..Len(result.invalid_numbers)}
           IN  /\ result.success
               /\ result.total_rows = Len(last_call.input.rows)
               /\ result.valid_count + result.invalid_count
                      = result.total_rows
               /\ result.valid_count = Len(result.valid_numbers)
               /\ result.invalid_count = Len(result.invalid_numbers)
               /\ Cardinality(valid) = result.valid_count
               /\ Cardinality(invalid) = result.invalid_count
               /\ valid \cap invalid = {}
               /\ valid \cup invalid = 1..result.total_rows

C16_Witness ==
    /\ last_call.op = "validate_csv_file"
    /\ last_call.output.success
    /\ last_call.output.total_rows = 5
    /\ last_call.output.valid_count = 4
    /\ last_call.output.invalid_count = 1

\* Line 146 parses the cleaned number.
Parses(phone_number) ==
    phonenumbers_parse(AddPlusPrefix(CleanNumber(phone_number))).ok

FieldEmpty(value) == value \in {<<>>, NaN}

\* C18: a placeholder whose field the recipient lacks is left as it is in
\* the output: the output is the template with at most the other
\* placeholder replaced.
C18_MissingFieldKeepsPlaceholder ==
    last_call.op = "_personalize_message"
        => LET template == last_call.input.template
               recipient == last_call.input.recipient
               name == recipient.name
               custom_field == recipient.custom_field
           IN  /\ FieldEmpty(name)
                     => last_call.output
                          = IF FieldEmpty(custom_field) THEN template
                            ELSE Replace(template, PLACEHOLDER_CUSTOM,
                                         custom_field)
               /\ FieldEmpty(custom_field)
                     => last_call.output
                          = IF FieldEmpty(name) THEN template
                            ELSE Replace(template, PLACEHOLDER_NAME, name)

\* One pass over the template: a placeholder whose field is set is
\* replaced by the field's text, and the text put in is not looked at
\* again.
RECURSIVE Substitute(_, _)
Substitute(template, recipient) ==
    IF template = <<>> THEN <<>>
    ELSE IF /\ recipient.name # <<>>
            /\ StartsWith(template, PLACEHOLDER_NAME)
    THEN Str(recipient.name)
         \o Substitute(SubSeq(template, Len(PLACEHOLDER_NAME) + 1,
                              Len(template)), recipient)
    ELSE IF /\ recipient.custom_field # <<>>
            /\ StartsWith(template, PLACEHOLDER_CUSTOM)
    THEN Str(recipient.custom_field)
         \o Substitute(SubSeq(template, Len(PLACEHOLDER_CUSTOM) + 1,
                              Len(template)), recipient)
    ELSE <<Head(template)>> \o Substitute(Tail(template), recipient)

\* C19: the values put in for placeholders are plain text: the output is
\* the template with each of its own placeholders replaced, once.
C19_ValuesArePlainText ==
    last_call.op = "_personalize_message"
        => last_call.output
             = Substitute(last_call.input.template, last_call.input.recipient)

GuardOps == {"_is_duplicate", "is_duplicate_request"}

Window(op) == IF op = "_is_duplicate" THEN TRANSPORT_WINDOW ELSE REQUEST_WINDOW

\* The key under which a guard files a call.
EntryKey(op, identity, body) ==
    IF op = "_is_duplicate" THEN MessageKey(identity, body)
    ELSE RequestKey(identity, body)

\* When the calls of the latest call's entry were let through, before it.
AcceptedBefore ==
    {last_call.accepted[e].at :
        e \in {e \in DOMAIN last_call.accepted :
                 /\ e[1] = last_call.op
                 /\ EntryKey(e[1], e[2], e[3])
                      = EntryKey(last_call.op, last_call.input.identity,
                                 last_call.input.body)}}

LastAccepted == CHOOSE t \in AcceptedBefore : \A u \in AcceptedBefore : u <= t

\* C11: each guard lets the first call of an entry through, answers
\* duplicate to a call made less than its window after the entry was last
\* let through, and lets through a call made at or after that.
C11_GuardWindow ==
    last_call.op \in GuardOps
        => IF AcceptedBefore = {}
           THEN last_call.output = "accepted"
           ELSE IF last_call.at < LastAccepted + Window(last_call.op)
           THEN last_call.output = "duplicate"
           ELSE last_call.output = "accepted"

\* C12: a call answered duplicate changes no stored timestamp, and a call
\* made a window or more after its entry was last let through is let
\* through, however many calls were answered duplicate in between.
C12_DuplicateKeepsTimestamp ==
    last_call.op \in GuardOps
        => /\ last_call.output = "duplicate"
                 => /\ recent_messages = last_call.recent_messages
                    /\ \A e \in DOMAIN accepted :
                          /\ e \in DOMAIN last_call.accepted
                          /\ accepted[e].at = last_call.accepted[e].at
           /\ (/\ AcceptedBefore # {}
               /\ last_call.at >= LastAccepted + Window(last_call.op))
                 => last_call.output = "accepted"
           /\ \A e \in DOMAIN accepted :
                 e[1] = "_is_duplicate"
                     => IF MessageKey(e[2], e[3]) \in DOMAIN recent_messages
                        THEN recent_messages[MessageKey(e[2], e[3])]
                                 >= accepted[e].at
                        ELSE now - accepted[e].at >= RETENTION

\* A call was answered duplicate after its entry was let through, and a
\* window after that the same call is let through.
C12_Witness ==
    /\ last_call.op = "_is_duplicate"
    /\ last_call.output = "accepted"
    /\ LET e == <<"_is_duplicate", last_call.input.identity,
                  last_call.input.body>>
       IN  /\ e \in DOMAIN last_call.accepted
           /\ last_call.accepted[e].repeated
           /\ last_call.at = last_call.accepted[e].at + TRANSPORT_WINDOW
           /\ accepted[e].at = last_call.at

\* C13: a guard answers duplicate only to a call whose identity and body
\* are those of a call it let through less than a window before.
C13_SameEntryIffSamePair ==
    (last_call.op \in GuardOps /\ last_call.output = "duplicate")
        => LET e == <<last_call.op, last_call.input.identity,
                      last_call.input.body>>
           IN  /\ e \in DOMAIN last_call.accepted
               /\ last_call.at - last_call.accepted[e].at
                    < Window(last_call.op)

\* C21: a stored sms_messages row is never changed by a later step: each
\* step leaves every row that was stored before it as it was.
C21_RowsAreImmutable ==
    [][IsPrefix(sms_messages, sms_messages')]_vars

\* The gateway calls made for a number and a body less than a window
\* apart.
CallsInWindow ==
    {pair \in (1..Len(gateway_calls)) \X (1..Len(gateway_calls)) :
        /\ pair[1] < pair[2]
        /\ gateway_calls[pair[1]].to = gateway_calls[pair[2]].to
        /\ gateway_calls[pair[1]].body = gateway_calls[pair[2]].body
        /\ gateway_calls[pair[2]].at - gateway_calls[pair[1]].at
             < TRANSPORT_WINDOW}

\* C22: with two jobs running, the cache of the transport guard changes
\* only in a step of the running task that also makes the gateway call the
\* guard let through and files it under the time of the call; and no two
\* gateway calls, of one job or of two, are made for the same number and
\* body less than a window apart.
C22_OneAttemptReachesGateway ==
    [][/\ CallsInWindow' = {}
       /\ recent_messages' # recent_messages
             => /\ running \in Created
                /\ task[running].pc = "recipient"
                /\ Len(gateway_calls') = Len(gateway_calls) + 1
                /\ LET call == gateway_calls'[Len(gateway_calls')]
                   IN  /\ call.job = running
                       /\ call.at = now
                       /\ recent_messages'[MessageKey(call.to, call.body)]
                            = now]_vars

\* One job sleeps after its first send; meanwhile the other job attempted
\* the same number and body and was suppressed.
C22_Witness ==
    \E j \in Created, k \in Created :
        /\ j # k
        /\ task[j].pc = "sleep_message"
        /\ Cardinality(CallsFor(j, 1)) = 1
        /\ 1 \in task[k].suppressed
        /\ CallsFor(k, 1) = {}
        /\ task[k].recipients[1].phone_number
             = task[j].recipients[1].phone_number
        /\ task[k].pc = "done"

BatchEndOf(j, p) ==
    LET size == BatchSize(TotalRecipients(j))
    IN  Min((((p - 1) \div size) + 1) * size, TotalRecipients(j))

\* C24: whenever a row of a batch is stored, the stored counters of its
\* job count every recipient of that batch.
C24_RowsAndCountersTogether ==
    \A j \in Created :
        \A n \in RowsOf(j) :
            PersistedSum(j) >= BatchEndOf(j, sms_messages[n].position)

\* C25: the recipients of a job are in the row order of the source; every
\* batch starts at a multiple of the batch size and, unless it is the last,
\* has batch_size recipients; a step attempts the recipient after the last
\* one attempted, so each recipient is attempted once and in order; a new
\* batch starts where the batch before it ended, after all of that batch
\* was attempted; and a task that reaches the end has attempted them all.
C25_BatchesPartitionInOrder ==
    [][\A j \in Created :
          LET t == task[j]
              u == task'[j]
              total == TotalRecipients(j)
              size == BatchSize(total)
          IN  /\ \A n \in 1..total : \A m \in 1..total :
                    n < m => t.recipients[n].row < t.recipients[m].row
              /\ u.recipients = t.recipients
              /\ u.batch_start % size = 0
              /\ u.pc \in InLoop
                    => /\ u.batch_start < total
                       /\ u.i >= 0
                       /\ u.i < Min(size, total - u.batch_start)
              /\ u.attempted # t.attempted
                    => /\ u.attempted
                            = t.attempted \cup {Cardinality(t.attempted) + 1}
                       /\ Cardinality(t.attempted) + 1
                            = t.batch_start + t.i + 1
              /\ u.batch_start # t.batch_start
                    => /\ u.batch_start = t.batch_start + size
                       /\ u.i = 0
                       /\ t.attempted = 1..u.batch_start
              /\ (u.pc = "complete" /\ t.pc # "complete")
                    => u.attempted = 1..total]_vars

\* A job of eleven recipients: a batch of ten, then a batch of one.
C25_Witness ==
    \E j \in Created :
        /\ TotalRecipients(j) = 11
        /\ BatchSize(TotalRecipients(j)) = 10
        /\ task[j].batch_start = 10
        /\ task[j].attempted = 1..11
        /\ StatusOf(j) = "completed"

\* C26: the batch size is 10 for fewer than 220 recipients, a twentieth of
\* their number, rounded down, from 220 to 1999, and 100 from 2000 on; it
\* is never below 10 or above 100.
C26_BatchSizeClamped ==
    last_call.op = "batch_size"
        => LET n == last_call.input
               batch_size == last_call.output
           IN  /\ n < 220 => batch_size = 10
               /\ (220 <= n /\ n < 2000)
                     => /\ batch_size * 20 <= n
                        /\ n < (batch_size + 1) * 20
               /\ n >= 2000 => batch_size = 100
               /\ batch_size >= 10
               /\ batch_size <= 100

\* 1999 recipients are sent in batches of 99.
C26_Witness ==
    /\ last_call.op = "batch_size"
    /\ last_call.input = 1999
    /\ last_call.output = 99

Sleeping == {"sleep_message", "sleep_batch"}

\* The position of the latest gateway call of job j, 0 when it has made
\* none.
LastCalled(j) ==
    LET called == {gateway_calls[n].position :
                      n \in {n \in 1..Len(gateway_calls) :
                                gateway_calls[n].job = j}}
    IN  IF called = {} THEN 0
        ELSE CHOOSE p \in called : \A q \in called : q <= p

\* C27: a task that has called send_sms for a recipient that is not the
\* last of its batch suspends in the sleep between messages, and after a
\* batch that is not the last in the sleep between batches; it leaves a
\* sleep only when the delay has passed; between two consecutive gateway
\* calls of a job it has returned from a sleep between messages when the
\* two recipients are in one batch and from a sleep between batches when
\* they are not; and once the last recipient was tried it does not sleep.
C27_PacingBetweenSends ==
    [][\A j \in Created :
          LET t == task[j]
              u == task'[j]
              called == /\ Len(gateway_calls') = Len(gateway_calls) + 1
                        /\ gateway_calls'[Len(gateway_calls')].job = j
          IN  /\ (t.pc = "recipient" /\ u.attempted # t.attempted
                    /\ Position(j) < BatchEnd(j))
                    => /\ u.pc = "sleep_message"
                       /\ u.wake = now + DELAY_BETWEEN_MESSAGES
                       /\ running' = NULL
              /\ (t.pc = "update" /\ u.pc # "update"
                    /\ BatchEnd(j) < TotalRecipients(j))
                    => /\ u.pc = "sleep_batch"
                       /\ u.wake = now + DELAY_BETWEEN_BATCHES
                       /\ running' = NULL
              /\ (t.pc \in Sleeping /\ u.pc # t.pc)
                    => /\ now >= t.wake
                       /\ u.paused
                            = t.paused \cup {IF t.pc = "sleep_message"
                                             THEN "message" ELSE "batch"}
              /\ (called /\ LastCalled(j) # 0)
                    => IF BatchEndOf(j, LastCalled(j)) = BatchEnd(j)
                       THEN "message" \in t.paused
                       ELSE "batch" \in t.paused
              /\ called => u.paused = {}
              /\ TotalRecipients(j) \in u.attempted
                    => u.pc \notin Sleeping]_vars

\* A job of eleven recipients that called the gateway for two recipients
\* of its first batch and for the recipient of its second.
C27_Witness ==
    \E j \in Created :
        /\ TotalRecipients(j) = 11
        /\ StatusOf(j) = "completed"
        /\ CallsFor(j, 1) # {}
        /\ \E p \in 2..10 : CallsFor(j, p) # {}
        /\ CallsFor(j, 11) # {}

\* C28 as stated: after any call of a guard has returned, duplicate or
\* not, the cache holds no entry made more than RETENTION seconds before
\* the call.
C28_EveryCallEvicts ==
    last_call.op \in GuardOps
        => \A k \in DOMAIN recent_messages :
               last_call.at - recent_messages[k] <= RETENTION

\* C28: a call of the transport guard that is let through leaves in the
\* cache its own entry and the entries made less than RETENTION seconds
\* before it, with the times they had, and no other; a call answered
\* duplicate leaves the cache as it was.
C28_AcceptedCallEvicts ==
    last_call.op = "_is_duplicate"
        => LET before == last_call.recent_messages
               key == MessageKey(last_call.input.identity,
                                 last_call.input.body)
           IN  /\ last_call.output = "accepted"
                     => /\ \A k \in DOMAIN recent_messages :
                              last_call.at - recent_messages[k] < RETENTION
                        /\ key \in DOMAIN recent_messages
                        /\ recent_messages[key] = last_call.at
                        /\ \A k \in DOMAIN before \ {key} :
                              IF last_call.at - before[k] < RETENTION
                              THEN /\ k \in DOMAIN recent_messages
                                   /\ recent_messages[k] = before[k]
                              ELSE k \notin DOMAIN recent_messages
                        /\ DOMAIN recent_messages
                             \subseteq DOMAIN before \cup {key}
               /\ last_call.output = "duplicate"
                     => recent_messages = before

\* A call was let through and an entry past its retention left the cache.
C28_Witness ==
    /\ last_call.op = "_is_duplicate"
    /\ last_call.output = "accepted"
    /\ \E k \in DOMAIN last_call.recent_messages :
          /\ k \notin DOMAIN recent_messages
          /\ last_call.at - last_call.recent_messages[k] >= RETENTION

EndpointOps == {"send_sms", "send_bulk_sms"}

====
